---- MODULE Spec2Model ----
(***************************************************************************)
(* Model of the page controller of the QUIC echo server IWA                *)
(* (src/unnamed/part_000, the repository's src/quic.ts).                   *)
(*                                                                         *)
(* The state is the page's DOM fields the script writes, its two module    *)
(* level counters, the injected script element, and the requests the page  *)
(* has issued to the host (badge, window.open).  Every handler runs to     *)
(* completion on the event loop, so each one is one action.                *)
(*                                                                         *)
(* Text is a sequence of tokens (the tokens of one line, joined by a       *)
(* blank).  A regular expression of the source is modelled by the          *)
(* literals a token contains: CI(tok) are the literals it contains when    *)
(* case is ignored (the /i expressions), CS(tok) those it contains in the  *)
(* exact case the case-sensitive expressions spell.                        *)
(***************************************************************************)
EXTENDS Integers, Sequences, FiniteSets, TLC

VARIABLES
    sab,               \* typeof SharedArrayBuffer !== 'undefined'
    badgingSupported,  \* 'setAppBadge' in navigator
    btnDisabled,       \* btnStart.disabled
    statusText,        \* statusTextEl.textContent
    statusCls,         \* statusEl.className without the 'status-pill ' prefix
    loadingActive,     \* loadingOverlay.classList has 'active'
    activeGlow,        \* .log-container classList has 'active-glow'
    logEl,             \* children of logEl: sequence of [cls, msg]
    lineCount,         \* let lineCount
    logCountEl,        \* logCountEl.textContent
    connectionCount,   \* let connectionCount
    badgeCountEl,      \* badgeCountEl.textContent
    badgeDisplay,      \* badgeDisplay.style.display
    script,            \* the injected <script>: none, pending, loaded, failed
    loadRequests,      \* number of <script> elements appended to the body
    badgeRequests,     \* setAppBadge / clearAppBadge calls issued, in order
    opened,            \* window.open calls issued, in order (their URLs)
    awaited,           \* badge promises not yet settled: [req, outcome, seq]
    appBadge,          \* the badge the host shows on the app icon, 0: none
    applied,           \* index in badgeRequests of the request it shows, 0: none
    host,              \* what the host did with the requests of the last handler
    received,          \* lines the module has delivered: [chan, text]
    aborts,            \* number of onAbort calls received
    unloaded,          \* beforeunload has fired
    ev                 \* the handler that ran last

vars == <<sab, badgingSupported, btnDisabled, statusText, statusCls,
          loadingActive, activeGlow, logEl, lineCount, logCountEl,
          connectionCount, badgeCountEl, badgeDisplay, script, loadRequests,
          badgeRequests, opened, awaited, appBadge, applied, host, received,
          aborts, unloaded, ev>>

-----------------------------------------------------------------------------
(* Bounds of the model *)

MaxLines == 2     \* lines the module delivers in one page lifetime
MaxStarts == 2    \* start commands in one page lifetime
MaxAborts == 1    \* abort signals in one page lifetime

-----------------------------------------------------------------------------
(* Text *)

Digit == <<"0", "1", "2", "3", "4", "5", "6", "7", "8", "9">>

\* String(n) / n + '' for an integer: its sign and decimal digits
RECURSIVE Str(_)
Str(n) == IF n < 0 THEN <<"-">> \o Str(0 - n)
          ELSE IF n < 10 THEN <<Digit[n + 1]>>
          ELSE Str(n \div 10) \o <<Digit[(n % 10) + 1]>>

DigitVal(d) == CHOOSE k \in 0..9 : Digit[k + 1] = d

\* the number a sequence of decimal digits spells
RECURSIVE Num(_)
Num(ds) == IF Len(ds) = 0 THEN 0
           ELSE 10 * Num(SubSeq(ds, 1, Len(ds) - 1)) + DigitVal(ds[Len(ds)])

\* literals of the /i expressions a token contains, case ignored
CI(tok) ==
    CASE tok = "new QUIC connection" -> {"new quic connection"}
      [] tok = "connection closed"   -> {"connection closed"}
      [] tok = "Listening"           -> {"listening"}
      [] tok = "listening"           -> {"listening"}
      [] tok = "FATAL:"              -> {"fatal:"}
      [] tok = "available"           -> {"available"}
      [] tok = "unavailable"         -> {"available"}
      [] tok = "Emscripten JS loaded, spawning worker..." -> {"loaded"}
      [] tok = "error"               -> {"error"}
      [] tok = "ERROR"               -> {"error"}
      [] tok = "fatal:"              -> {"fatal:"}
      [] tok = "handshake completed" -> {"handshake completed", "completed"}
      [] tok = "not available"       -> {"not available", "available"}
      [] tok = "warn"                -> {"warn"}
      [] tok = "Warning"             -> {"warn"}
      [] tok = "requires"            -> {"requires"}
      [] OTHER                       -> {}

\* literals of the case-sensitive expressions a token contains
CS(tok) ==
    CASE tok = "Listening" -> {"Listening"}
      [] tok = "FATAL:"    -> {"FATAL:"}
      [] OTHER             -> {}

\* /a|b|.../i.test(text)
TestCI(text, lits) == \E i \in 1..Len(text) : CI(text[i]) \cap lits # {}

\* /a|b|.../.test(text)
TestCS(text, lits) == \E i \in 1..Len(text) : CS(text[i]) \cap lits # {}


\* the fatal test without its ^ anchor
TestFatalAnywhere(text) == TestCS(text, {"FATAL:"})

\* /^FATAL:/.test(text)
TestFatalPrefix(text) == Len(text) > 0 /\ text[1] = "FATAL:"

\* /OK$/i.test(text)
TestOkEnd(text) == Len(text) > 0 /\ text[Len(text)] \in {"OK", "ok"}

-----------------------------------------------------------------------------
(* The page state the handlers read and write, as one record, so that a    *)
(* handler's statements compose in the order the source runs them.         *)

\* the host serving every request of a handler: the badge promise resolves,
\* window.open returns a window
HostOk == [badge |-> "ok", open |-> "ok"]

\* The state a handler runs on.  host is what the host will do with the
\* requests the handler makes; thrown is the exception propagating out of
\* the statement just executed.
Cur == [btnDisabled |-> btnDisabled, statusText |-> statusText,
        statusCls |-> statusCls, loadingActive |-> loadingActive,
        activeGlow |-> activeGlow, logEl |-> logEl, lineCount |-> lineCount,
        logCountEl |-> logCountEl, connectionCount |-> connectionCount,
        badgeCountEl |-> badgeCountEl, badgeDisplay |-> badgeDisplay,
        script |-> script, loadRequests |-> loadRequests,
        badgeRequests |-> badgeRequests, opened |-> opened,
        awaited |-> awaited, host |-> HostOk, thrown |-> FALSE]

Commit(s) ==
    /\ btnDisabled' = s.btnDisabled
    /\ statusText' = s.statusText
    /\ statusCls' = s.statusCls
    /\ loadingActive' = s.loadingActive
    /\ activeGlow' = s.activeGlow
    /\ logEl' = s.logEl
    /\ lineCount' = s.lineCount
    /\ logCountEl' = s.logCountEl
    /\ connectionCount' = s.connectionCount
    /\ badgeCountEl' = s.badgeCountEl
    /\ badgeDisplay' = s.badgeDisplay
    /\ script' = s.script
    /\ loadRequests' = s.loadRequests
    /\ badgeRequests' = s.badgeRequests
    /\ opened' = s.opened
    /\ awaited' = s.awaited

\* the cls argument of log() left out
NoCls == ""

\* What quic.html (not under src/) gives the elements before the script runs.
Markup == [btnDisabled |-> FALSE, statusText |-> "idle", statusCls |-> "",
           loadingActive |-> FALSE, activeGlow |-> FALSE, logEl |-> <<>>,
           lineCount |-> 0, logCountEl |-> <<"0", " lines">>,
           connectionCount |-> 0, badgeCountEl |-> <<"0">>,
           badgeDisplay |-> "none", script |-> "none", loadRequests |-> 0,
           badgeRequests |-> <<>>, opened |-> <<>>,
           awaited |-> <<>>, host |-> HostOk, thrown |-> FALSE]

-----------------------------------------------------------------------------
(* Helpers of the source *)


\* the badge request of updateBadge, a clear issued at count 1 already
BadgeRequestClearsEarly(count) ==
    IF count > 1 THEN [op |-> "setAppBadge", n |-> count]
    ELSE [op |-> "clearAppBadge", n |-> 0]

\* the badge request updateBadge issues for count
BadgeRequest(count) ==
    IF count > 0 THEN [op |-> "setAppBadge", n |-> count]
    ELSE [op |-> "clearAppBadge", n |-> 0]



\* The promise updateBadge awaits after its call of setAppBadge or
\* clearAppBadge: none when the API is missing or the call itself throws
\* (caught by the try around it), else one that will resolve or reject.
Await(s, count) ==
    IF badgingSupported /\ s.host.badge # "throw"
    THEN Append(s.awaited, [req |-> BadgeRequest(count), outcome |-> s.host.badge,
                            seq |-> Len(s.badgeRequests) + 1])
    ELSE s.awaited

\* updateBadge leaving the page's badge shown at count 0
updateBadgeNeverHides(s, count) ==
    [s EXCEPT !.connectionCount = count,
              !.badgeCountEl = Str(count),
              !.badgeDisplay = "inline-flex",
              !.badgeRequests = IF badgingSupported
                                THEN Append(@, BadgeRequest(count)) ELSE @,
              !.awaited = Await(s, count)]


\* updateBadge asking the host for the count it replaces
updateBadgeRequestsOld(s, count) ==
    [s EXCEPT !.connectionCount = count,
              !.badgeCountEl = Str(count),
              !.badgeDisplay = IF count > 0 THEN "inline-flex" ELSE "none",
              !.badgeRequests = IF badgingSupported
                                THEN Append(@, BadgeRequest(s.connectionCount)) ELSE @,
              !.awaited = Await(s, s.connectionCount)]

\* updateBadge(count), up to the await: the counter, the page's badge, and
\* the request to the host when the Badging API is there.  It is an async
\* function: nothing it throws reaches its caller.
updateBadge(s, count) ==
    [s EXCEPT !.connectionCount = count,
              !.badgeCountEl = Str(count),
              !.badgeDisplay = IF count > 0 THEN "inline-flex" ELSE "none",
              !.badgeRequests = IF badgingSupported
                                THEN Append(@, BadgeRequest(count)) ELSE @,
              !.awaited = Await(s, count)]

setStatus(s, text, cls) == [s EXCEPT !.statusText = text, !.statusCls = cls]


\* the severity rules with the warning rule tried before the success rule
SeverityWarnFirst(msg) ==
    IF TestCI(msg, {"fatal:", "error"}) THEN "log-err"
    ELSE IF TestCI(msg, {"warn", "requires", "not available"}) THEN "log-warn"
    ELSE IF TestOkEnd(msg) \/ TestCI(msg, {"loaded", "configured", "completed",
                                           "listening", "available"})
         THEN "log-ok"
    ELSE "log-info"

\* the severity log() gives a message that comes without one
Severity(msg) ==
    IF TestCI(msg, {"fatal:", "error"}) THEN "log-err"
    ELSE IF TestOkEnd(msg) \/ TestCI(msg, {"loaded", "configured", "completed",
                                           "listening", "available"})
         THEN "log-ok"
    ELSE IF TestCI(msg, {"warn", "requires", "not available"}) THEN "log-warn"
    ELSE "log-info"

\* logCountEl.textContent for n lines
CountText(n) == Str(n) \o <<IF n # 1 THEN " lines" ELSE " line">>


\* log inserting the entry at the top of the panel instead of appending it
logPrepends(s, msg, cls) ==
    LET c == IF cls = NoCls THEN Severity(msg) ELSE cls
    IN [s EXCEPT !.logEl = <<[cls |-> c, msg |-> msg]>> \o @,
                 !.lineCount = @ + 1,
                 !.logCountEl = CountText(s.lineCount + 1)]

\* log(msg, cls); the timestamp of the entry is left out
log(s, msg, cls) ==
    LET c == IF cls = NoCls THEN Severity(msg) ELSE cls
        n == s.lineCount + 1
    IN [s EXCEPT !.logEl = Append(@, [cls |-> c, msg |-> msg]),
                 !.lineCount = n,
                 !.logCountEl = CountText(n)]



\* clearLog resetting the connection counter and the page's badge with the log
clearLogResetsCounter(s) ==
    [s EXCEPT !.logEl = <<>>, !.lineCount = 0, !.logCountEl = <<"0", " lines">>,
              !.connectionCount = 0, !.badgeCountEl = <<"0">>,
              !.badgeDisplay = "none"]

\* clearLog without lineCount = 0
clearLogKeepsCount(s) ==
    [s EXCEPT !.logEl = <<>>, !.logCountEl = <<"0", " lines">>]

clearLog(s) ==
    [s EXCEPT !.logEl = <<>>, !.lineCount = 0, !.logCountEl = <<"0", " lines">>]

-----------------------------------------------------------------------------
(* Initialisation: checkEnvironment, then detectCapabilities *)

\* the value column of the four environment cards
EnvValue(label, ok) ==
    CASE label = "SharedArrayBuffer:"     -> IF ok THEN "available" ELSE "missing"
      [] label = "Cross-Origin Isolated:" -> IF ok THEN "yes" ELSE "no"
      [] label = "Direct Sockets:"        -> IF ok THEN "available" ELSE "unavailable"
      [] label = "Badging API:"           -> IF ok THEN "available" ELSE "unavailable"


\* Gate with the assignment btnStart.disabled = true left out
GateLeavesButton(s, hasSab) ==
    IF ~hasSab
    THEN setStatus(log(s, <<"Need COOP/COEP headers or IWA context for SharedArrayBuffer">>,
                       "log-err"),
                   "missing SharedArrayBuffer", "status-error")
    ELSE log(s, <<"Ready to start.">>, "log-ok")

\* the hard gate of checkEnvironment: without SharedArrayBuffer the start
\* control is disabled and the function returns
Gate(s, hasSab) ==
    IF ~hasSab
    THEN LET a == log(s, <<"Need COOP/COEP headers or IWA context for SharedArrayBuffer">>,
                      "log-err")
             b == setStatus(a, "missing SharedArrayBuffer", "status-error")
         IN [b EXCEPT !.btnDisabled = TRUE]
    ELSE log(s, <<"Ready to start.">>, "log-ok")

checkEnvironment(s, hasSab, coi, sockets, badging) ==
    LET a == log(s, <<"SharedArrayBuffer:", EnvValue("SharedArrayBuffer:", hasSab)>>, NoCls)
        b == log(a, <<"Cross-Origin Isolated:", EnvValue("Cross-Origin Isolated:", coi)>>, NoCls)
        c == log(b, <<"Direct Sockets:", EnvValue("Direct Sockets:", sockets)>>, NoCls)
        d == log(c, <<"Badging API:", EnvValue("Badging API:", badging)>>, NoCls)
    IN Gate(d, hasSab)

\* detectCapabilities: one log entry with the number of APIs found (the
\* twenty display-only probes are not modelled, the number is left open)
detectCapabilities(s) ==
    log(s, <<"IWA capabilities: k/20 APIs detected">>, "log-ok")

Init ==
    /\ sab \in BOOLEAN
    /\ badgingSupported \in BOOLEAN
    /\ \E coi \in BOOLEAN, sockets \in BOOLEAN :
         LET s == detectCapabilities(
                      checkEnvironment(Markup, sab, coi, sockets, badgingSupported))
         IN /\ btnDisabled = s.btnDisabled
            /\ statusText = s.statusText
            /\ statusCls = s.statusCls
            /\ loadingActive = s.loadingActive
            /\ activeGlow = s.activeGlow
            /\ logEl = s.logEl
            /\ lineCount = s.lineCount
            /\ logCountEl = s.logCountEl
            /\ connectionCount = s.connectionCount
            /\ badgeCountEl = s.badgeCountEl
            /\ badgeDisplay = s.badgeDisplay
            /\ script = s.script
            /\ loadRequests = s.loadRequests
            /\ badgeRequests = s.badgeRequests
            /\ opened = s.opened
            /\ awaited = s.awaited
    /\ appBadge = 0
    /\ applied = 0
    /\ host = HostOk
    /\ received = <<>>
    /\ aborts = 0
    /\ unloaded = FALSE
    /\ ev = "init"

-----------------------------------------------------------------------------
(* Handlers *)


\* the decrement without its floor
NoFloor(n) == n

\* Math.max(0, n)
MathMax0(n) == IF n > 0 THEN n ELSE 0

\* the URL window.open is called with
ConnUrl(n) == <<"/quic.html?conn=">> \o Str(n)

TestEstablished(text) ==
    TestCI(text, {"new quic connection", "handshake completed", "connection established"})

TestClosed(text) ==
    TestCI(text, {"connection closed", "connection timeout", "draining"})

TestListening(text) == TestCS(text, {"Listening", "Waiting for QUIC"})



\* window.open(url, '_blank'): the call is issued; the host opens the view,
\* returns null (blocked), or throws
windowOpen(s, url) ==
    [s EXCEPT !.opened = Append(@, url), !.thrown = (s.host.open = "throw")]

\* a catch clause that lets the exception through
CatchRethrows(s) == s

\* try { ... } catch (_) {} around the statement that gave s
Catch(s) == [s EXCEPT !.thrown = FALSE]

\* the established branch building the URL from the count before the increment
OnEstablishedStaleTag(s) ==
    LET a == updateBadge(s, s.connectionCount + 1)
        b == log(a, <<"Connection #">> \o Str(a.connectionCount) \o <<" - badge updated">>,
                 "log-ok")
    IN [b EXCEPT !.opened = Append(@, ConnUrl(s.connectionCount))]

\* printErr, the 'connection established' branch
OnEstablished(s) ==
    LET a == updateBadge(s, s.connectionCount + 1)
        b == log(a, <<"Connection #">> \o Str(a.connectionCount) \o <<" - badge updated">>,
                 "log-ok")
    IN Catch(windowOpen(b, ConnUrl(b.connectionCount)))


\* the closed branch writing a log entry of its own, as the established one does
OnClosedLogs(s) ==
    LET a == updateBadge(s, MathMax0(s.connectionCount - 1))
    IN log(a, <<"Connection #">> \o Str(a.connectionCount) \o <<" - badge updated">>,
           "log-ok")

\* printErr, the 'connection closed' branch
OnClosed(s) == updateBadge(s, MathMax0(s.connectionCount - 1))



\* the listening branch leaving the loading indicator as it is
OnListeningKeepsLoading(s) ==
    [setStatus(s, "running - port 4433", "status-running") EXCEPT !.activeGlow = TRUE]

\* the listening branch without the active indicator
OnListeningNoGlow(s) ==
    [setStatus(s, "running - port 4433", "status-running")
        EXCEPT !.loadingActive = FALSE]

\* printErr, the 'listening' branch
OnListening(s) ==
    [setStatus(s, "running - port 4433", "status-running")
        EXCEPT !.loadingActive = FALSE, !.activeGlow = TRUE]



\* the fatal branch turning the active indicator off
OnFatalDropsGlow(s) ==
    [setStatus(s, "error", "status-error")
        EXCEPT !.loadingActive = FALSE, !.activeGlow = FALSE]

\* the fatal branch re-enabling the start control, as script.onerror does
OnFatalReenables(s) ==
    [setStatus(s, "error", "status-error")
        EXCEPT !.loadingActive = FALSE, !.btnDisabled = FALSE]


\* the fatal branch without the removal of the loading indicator
OnFatalKeepsLoading(s) == setStatus(s, "error", "status-error")

\* printErr, the 'fatal' branch
OnFatal(s) ==
    [setStatus(s, "error", "status-error") EXCEPT !.loadingActive = FALSE]


\* print running the trigger tests of printErr on its line
printClassifies(s, text) ==
    LET a == log(s, text, NoCls)
        b == IF TestEstablished(text) THEN OnEstablished(a) ELSE a
        c == IF TestClosed(text) THEN OnClosed(b) ELSE b
        d == IF TestListening(text) THEN OnListening(c) ELSE c
    IN IF TestFatalPrefix(text) THEN OnFatal(d) ELSE d

\* Module.print(text)
print(s, text) == log(s, text, NoCls)



\* printErr with the fatal test before the listening test
printErrFatalFirst(s, text) ==
    LET a == log(s, text, NoCls)
        b == IF TestEstablished(text) THEN OnEstablished(a) ELSE a
        c == IF ~b.thrown /\ TestClosed(text) THEN OnClosed(b) ELSE b
        d == IF ~c.thrown /\ TestFatalPrefix(text) THEN OnFatal(c) ELSE c
    IN IF ~d.thrown /\ TestListening(text) THEN OnListening(d) ELSE d

\* printErr with its trigger tests chained by else, the first match alone firing
printErrFirstOnly(s, text) ==
    LET a == log(s, text, NoCls)
    IN IF TestEstablished(text) THEN OnEstablished(a)
       ELSE IF TestClosed(text) THEN OnClosed(a)
       ELSE IF TestListening(text) THEN OnListening(a)
       ELSE IF TestFatalPrefix(text) THEN OnFatal(a)
       ELSE a

\* Module.printErr(text); an exception leaving a branch ends the call
printErr(s, text) ==
    LET a == log(s, text, NoCls)
        b == IF TestEstablished(text) THEN OnEstablished(a) ELSE a
        c == IF ~b.thrown /\ TestClosed(text) THEN OnClosed(b) ELSE b
        d == IF ~c.thrown /\ TestListening(text) THEN OnListening(c) ELSE c
    IN IF ~d.thrown /\ TestFatalPrefix(text) THEN OnFatal(d) ELSE d


\* onAbort re-enabling the start control, as script.onerror does
onAbortReenables(s, what) ==
    [setStatus(log(s, <<"Module aborted: ">> \o what, "log-err"), "aborted", "status-error")
        EXCEPT !.loadingActive = FALSE, !.btnDisabled = FALSE]


\* onAbort logging its entry without the error class
onAbortUnclassified(s, what) ==
    LET a == log(s, <<"Module aborted: ">> \o what, "log-info")
        b == setStatus(a, "aborted", "status-error")
    IN [b EXCEPT !.loadingActive = FALSE]

\* Module.onAbort(what)
onAbort(s, what) ==
    LET a == log(s, <<"Module aborted: ">> \o what, "log-err")
        b == setStatus(a, "aborted", "status-error")
    IN [b EXCEPT !.loadingActive = FALSE]


\* startServer without btn.disabled = true
startServerLeavesButton(s) ==
    LET b == setStatus(s, "loading...", "status-loading")
        c == [b EXCEPT !.loadingActive = TRUE]
        d == log(c, <<"Loading QUIC echo server...">>, NoCls)
    IN [d EXCEPT !.script = "pending", !.loadRequests = @ + 1]

\* startServer(): the page's part, then the script element appended
startServer(s) ==
    LET a == [s EXCEPT !.btnDisabled = TRUE]
        b == setStatus(a, "loading...", "status-loading")
        c == [b EXCEPT !.loadingActive = TRUE]
        d == log(c, <<"Loading QUIC echo server...">>, NoCls)
    IN [d EXCEPT !.script = "pending", !.loadRequests = @ + 1]

\* script.onload
scriptOnload(s) ==
    [log(s, <<"Emscripten JS loaded, spawning worker...">>, NoCls)
        EXCEPT !.script = "loaded"]


\* script.onerror without the removal of the loading indicator
scriptOnerrorKeepsLoading(s) ==
    LET a == log(s, <<"Failed to load quic_echo_server.js">>, "log-err")
        b == setStatus(a, "load failed", "status-error")
    IN [b EXCEPT !.btnDisabled = FALSE, !.script = "failed"]

\* script.onerror
scriptOnerror(s) ==
    LET a == log(s, <<"Failed to load quic_echo_server.js">>, "log-err")
        b == setStatus(a, "load failed", "status-error")
    IN [b EXCEPT !.loadingActive = FALSE, !.btnDisabled = FALSE, !.script = "failed"]


\* the beforeunload listener clearing the badge only while connections are counted
beforeUnloadIfCounting(reqs) ==
    IF badgingSupported /\ connectionCount > 0
    THEN Append(reqs, BadgeRequest(0)) ELSE reqs

\* beforeunload listener: the badge requests after it
beforeUnload(reqs) ==
    IF badgingSupported THEN Append(reqs, BadgeRequest(0)) ELSE reqs

\* beforeunload listener: clearAppBadge() is called when the API is there;
\* the promise it returns gets an empty rejection handler and is left alone.
\* A call that throws ends the listener, its last statement.
beforeunloadListener(s) ==
    [s EXCEPT !.badgeRequests = beforeUnload(@),
              !.awaited = IF badgingSupported /\ s.host.badge # "throw"
                          THEN Append(@, [req |-> BadgeRequest(0),
                                          outcome |-> s.host.badge,
                                          seq |-> Len(s.badgeRequests) + 1])
                          ELSE @]

-----------------------------------------------------------------------------
(* Inputs *)

\* lines the module writes
Lines == { <<"x">>,
           <<"new QUIC connection">>,
           <<"connection closed">>,
           <<"Listening">>,
           <<"FATAL:", "x">>,
           <<"FATAL:", "Listening">>,
           <<"Listening", "new QUIC connection">>,
           <<"listening", "FATAL:">> }

\* lines the module writes on the standard channel, where they are only
\* logged: a plain one, and lines matching the patterns of printErr
OutLines == { <<"x">>,
              <<"connection closed">>,
              <<"FATAL:", "Listening">>,
              <<"Listening", "new QUIC connection">> }

\* reasons of an abort
Whats == { <<"OOM">> }

-----------------------------------------------------------------------------
(* Actions: one per event the page handles.  A click reaches startServer   *)
(* only while the button is enabled; the script element settles once; the  *)
(* module calls back only after its script has loaded.                     *)

\* the handler e has run, the host having done h with its requests
EnvHost(e, h) == /\ ev' = e
                 /\ host' = h
                 /\ UNCHANGED <<sab, badgingSupported, appBadge, applied>>

Env(e) == EnvHost(e, HostOk)

Alive == ~unloaded

ClickStart ==
    /\ Alive
    /\ ~btnDisabled
    /\ loadRequests < MaxStarts
    /\ Commit(startServer(Cur))
    /\ Env("start")
    /\ UNCHANGED <<received, aborts, unloaded>>

ScriptLoaded ==
    /\ Alive
    /\ script = "pending"
    /\ Commit(scriptOnload(Cur))
    /\ Env("onload")
    /\ UNCHANGED <<received, aborts, unloaded>>

ScriptFailed ==
    /\ Alive
    /\ script = "pending"
    /\ Commit(scriptOnerror(Cur))
    /\ Env("onerror")
    /\ UNCHANGED <<received, aborts, unloaded>>

ModulePrint ==
    /\ Alive
    /\ script = "loaded"
    /\ Len(received) < MaxLines
    /\ \E text \in OutLines :
         /\ Commit(print(Cur, text))
         /\ received' = Append(received, [chan |-> "out", text |-> text])
    /\ Env("print")
    /\ UNCHANGED <<aborts, unloaded>>

ModulePrintErr ==
    /\ Alive
    /\ script = "loaded"
    /\ Len(received) < MaxLines
    /\ \E text \in Lines :
         /\ Commit(printErr(Cur, text))
         /\ received' = Append(received, [chan |-> "err", text |-> text])
    /\ Env("printErr")
    /\ UNCHANGED <<aborts, unloaded>>

ModuleAbort ==
    /\ Alive
    /\ script = "loaded"
    /\ aborts < MaxAborts
    /\ \E what \in Whats : Commit(onAbort(Cur, what))
    /\ aborts' = aborts + 1
    /\ Env("abort")
    /\ UNCHANGED <<received, unloaded>>

ClickClear ==
    /\ Alive
    /\ Commit(clearLog(Cur))
    /\ Env("clear")
    /\ UNCHANGED <<received, aborts, unloaded>>

Unload ==
    /\ Alive
    /\ Commit(beforeunloadListener(Cur))
    /\ unloaded' = TRUE
    /\ Env("unload")
    /\ UNCHANGED <<received, aborts>>

Next ==
    \/ ClickStart
    \/ ScriptLoaded
    \/ ScriptFailed
    \/ ModulePrint
    \/ ModulePrintErr
    \/ ModuleAbort
    \/ ClickClear
    \/ Unload

Spec == Init /\ [][Next]_vars

-----------------------------------------------------------------------------
(* The connection scenarios: the module loads and then writes connection   *)
(* lines only, on either channel, for longer than Spec lets it.            *)

MaxConnLines == 4   \* lines the module delivers in a connection scenario

ConnLines == { <<"new QUIC connection">>, <<"connection closed">> }

ConnPrint ==
    /\ Alive
    /\ script = "loaded"
    /\ Len(received) < MaxConnLines
    /\ \E text \in ConnLines :
         /\ Commit(print(Cur, text))
         /\ received' = Append(received, [chan |-> "out", text |-> text])
    /\ Env("print")
    /\ UNCHANGED <<aborts, unloaded>>

ConnPrintErr ==
    /\ Alive
    /\ script = "loaded"
    /\ Len(received) < MaxConnLines
    /\ \E text \in ConnLines :
         /\ Commit(printErr(Cur, text))
         /\ received' = Append(received, [chan |-> "err", text |-> text])
    /\ Env("printErr")
    /\ UNCHANGED <<aborts, unloaded>>

NextConn ==
    \/ ClickStart
    \/ ScriptLoaded
    \/ ConnPrint
    \/ ConnPrintErr

SpecConn == Init /\ [][NextConn]_vars

-----------------------------------------------------------------------------
(* The severity scenarios: the module writes lines that meet several of    *)
(* the severity rules of log() at once.                                    *)

MaxSevLines == 2   \* lines the module delivers in a severity scenario

SevLines == { <<"x">>,
              <<"ERROR", "OK">>,
              <<"Warning", "fatal:">>,
              <<"warn", "OK">>,
              <<"OK", "warn">>,
              <<"not available">>,
              <<"requires", "x">>,
              <<"handshake completed">> }

SevPrint ==
    /\ Alive
    /\ script = "loaded"
    /\ Len(received) < MaxSevLines
    /\ \E text \in SevLines :
         /\ Commit(print(Cur, text))
         /\ received' = Append(received, [chan |-> "out", text |-> text])
    /\ Env("print")
    /\ UNCHANGED <<aborts, unloaded>>

SevPrintErr ==
    /\ Alive
    /\ script = "loaded"
    /\ Len(received) < MaxSevLines
    /\ \E text \in SevLines :
         /\ Commit(printErr(Cur, text))
         /\ received' = Append(received, [chan |-> "err", text |-> text])
    /\ Env("printErr")
    /\ UNCHANGED <<aborts, unloaded>>

NextSev ==
    \/ ClickStart
    \/ ScriptLoaded
    \/ ScriptFailed
    \/ SevPrint
    \/ SevPrintErr
    \/ ModuleAbort

SpecSev == Init /\ [][NextSev]_vars

-----------------------------------------------------------------------------
(* The page with a host that fails its badge and window requests *)

MaxFailLines == 2   \* diagnostic lines delivered

FailLines == {<<"x">>, <<"Listening", "new QUIC connection">>,
              <<"connection closed">>, <<"FATAL:", "handshake completed">>}

\* what the host can do with the requests a diagnostic line causes: the
\* badge call throws, or its promise rejects or resolves; window.open
\* throws, returns null, or opens the view
HostOutcomes(text) ==
    LET badge == IF badgingSupported /\ (TestEstablished(text) \/ TestClosed(text))
                 THEN {"ok", "reject", "throw"} ELSE {"ok"}
        open == IF TestEstablished(text) THEN {"ok", "blocked", "throw"} ELSE {"ok"}
    IN {[badge |-> b, open |-> o] : b \in badge, o \in open}

FailPrintErr ==
    /\ Alive
    /\ script = "loaded"
    /\ Len(received) < MaxFailLines
    /\ \E text \in FailLines :
         \E h \in HostOutcomes(text) :
            /\ Commit(printErr([Cur EXCEPT !.host = h], text))
            /\ received' = Append(received, [chan |-> "err", text |-> text])
            /\ EnvHost("printErr", h)
    /\ UNCHANGED <<aborts, unloaded>>

\* the sequence without its i-th element
Without(seq, i) == SubSeq(seq, 1, i - 1) \o SubSeq(seq, i + 1, Len(seq))

\* The host completes a badge request, in any order, also after the page
\* is gone: a request it serves puts its value on the app icon and resolves
\* the promise, one it refuses rejects it and leaves the icon.  The page's
\* part is updateBadge resuming after its await, with an empty catch block
\* (on unload: the empty rejection handler).
BadgeSettles ==
    /\ \E i \in 1..Len(awaited) :
         /\ awaited' = Without(awaited, i)
         /\ IF awaited[i].outcome = "ok"
            THEN appBadge' = awaited[i].req.n /\ applied' = awaited[i].seq
            ELSE UNCHANGED <<appBadge, applied>>
    /\ ev' = "settle"
    /\ UNCHANGED <<sab, badgingSupported, btnDisabled, statusText, statusCls,
                   loadingActive, activeGlow, logEl, lineCount, logCountEl,
                   connectionCount, badgeCountEl, badgeDisplay, script,
                   loadRequests, badgeRequests, opened, host, received, aborts,
                   unloaded>>

NextFail ==
    \/ ClickStart
    \/ ScriptLoaded
    \/ FailPrintErr
    \/ BadgeSettles

SpecFail == Init /\ [][NextFail]_vars

-----------------------------------------------------------------------------
(* The page and the badge of the host: requests complete in any order, some *)
(* fail, and the page may be unloaded at any moment.                        *)

MaxBadgeLines == 2   \* diagnostic lines delivered

BadgeLines == {<<"new QUIC connection">>, <<"connection closed">>,
               <<"Listening">>, <<"FATAL:", "x">>}

\* what the host can do with the badge request of a line, window.open served
BadgeOutcomes(text) == {h \in HostOutcomes(text) : h.open = "ok"}

BadgePrintErr ==
    /\ Alive
    /\ script = "loaded"
    /\ Len(received) < MaxBadgeLines
    /\ \E text \in BadgeLines :
         \E h \in BadgeOutcomes(text) :
            /\ Commit(printErr([Cur EXCEPT !.host = h], text))
            /\ received' = Append(received, [chan |-> "err", text |-> text])
            /\ EnvHost("printErr", h)
    /\ UNCHANGED <<aborts, unloaded>>

\* what the host can do with the badge request of the beforeunload listener
UnloadOutcomes ==
    {[badge |-> b, open |-> "ok"] :
        b \in IF badgingSupported THEN {"ok", "reject", "throw"} ELSE {"ok"}}

\* beforeunload with a host that may fail the request
UnloadHost ==
    /\ Alive
    /\ \E h \in UnloadOutcomes :
         /\ Commit(beforeunloadListener([Cur EXCEPT !.host = h]))
         /\ EnvHost("unload", h)
    /\ unloaded' = TRUE
    /\ UNCHANGED <<received, aborts>>

NextBadge ==
    \/ ClickStart
    \/ ScriptLoaded
    \/ BadgePrintErr
    \/ BadgeSettles
    \/ UnloadHost

SpecBadge == Init /\ [][NextBadge]_vars

-----------------------------------------------------------------------------
(* The Session of the specification, read off the status the page shows.    *)
(* The source keeps no session variable: setStatus is its only record.     *)
(* The status of the hard gate ('missing SharedArrayBuffer') is no state   *)
(* of the session, which was never started: it reads as Idle.              *)

Session ==
    CASE statusText = "loading..."          -> "Loading"
      [] statusText = "running - port 4433" -> "Running"
      [] statusText = "error"               -> "Error"
      [] statusText = "load failed"         -> "Error"
      [] statusText = "aborted"             -> "Aborted"
      [] OTHER                              -> "Idle"

\* a step in which the module delivers a line
LineStep == Len(received') = Len(received) + 1

\* the line the module delivered last
LastLine == received[Len(received)]

-----------------------------------------------------------------------------
(* Claims *)

\* C1: without SharedArrayBuffer the start control is disabled in every
\* reachable state and no module load has been requested, whatever the other
\* probes are.
C1_HardGate ==
    ~sab => (btnDisabled /\ loadRequests = 0 /\ script = "none")

\* C1 witness: a page without SharedArrayBuffer on which handlers have run
C1_Witness == ~sab /\ badgingSupported /\ ev = "clear" /\ logEl = <<>>

\* C2 (as stated): a line received while the Session is Error or Aborted
\* leaves the Session state and the status as they are.
C2_TerminalKept ==
    [][(LineStep /\ Session \in {"Error", "Aborted"})
         => (Session' = Session /\ statusText' = statusText
             /\ statusCls' = statusCls)]_vars

\* C3 (as stated): once the Session is Error or Aborted it does not go to
\* Loading.
C3_NeverLoadingAgain ==
    [][(Session \in {"Error", "Aborted"}) => (Session' # "Loading")]_vars

\* C3 (amended): the Session goes to Loading by the start command only, and
\* the start command is taken only while the start control is enabled, which
\* is in Idle or in Error after a module-load failure, before any module
\* has run; it then moves the Session to Loading.
C3_StartWhereEnabled ==
    [][/\ (Session' = "Loading" /\ Session # "Loading")
            => loadRequests' = loadRequests + 1
       /\ (loadRequests' # loadRequests)
            => /\ ~btnDisabled
               /\ statusText \in {"idle", "load failed"}
               /\ script \in {"none", "failed"}
               /\ aborts = 0 /\ received = <<>>
               /\ (Session' = "Loading")]_vars

\* C3 witness: a start command taken after a load failure
C3_Witness ==
    ev = "start" /\ loadRequests = 2 /\ Session = "Loading" /\ script = "pending"

\* C4: the start control goes from disabled to enabled by the module-load
\* failure only, and the load failure does enable it.
C4_OnlyLoadFailureEnables ==
    [][/\ (btnDisabled /\ ~btnDisabled')
            => (ev' = "onerror" /\ script = "pending" /\ script' = "failed")
       /\ (ev' = "onerror" /\ script' # script) => ~btnDisabled']_vars

\* C4 witness: the start control enabled again after a load failure
C4_Witness == ev = "onerror" /\ ~btnDisabled /\ script = "failed"

\* C5: ConnectionCount is a non-negative integer in every reachable state.
C5_CountNonNegative == connectionCount \in Nat

\* C5 witness: closed lines received at count 0
C5_Witness ==
    /\ Len(received) = 2
    /\ \A i \in 1..2 : received[i].chan = "err" /\ TestClosed(received[i].text)
    /\ connectionCount = 0

\* C6: the page's badge is visible exactly when ConnectionCount > 0, and
\* the value it displays is ConnectionCount.
C6_BadgeMirrorsCount ==
    /\ (badgeDisplay # "none") <=> (connectionCount > 0)
    /\ Num(badgeCountEl) = connectionCount

\* C6 witness: the badge hidden again after it has been shown
C6_Witness ==
    /\ Len(opened) > 0
    /\ connectionCount = 0
    /\ badgeDisplay = "none"
    /\ badgeCountEl = <<"0">>

\* a line that matches none of the four trigger patterns: none of the
\* connection literals in any case, neither listening literal in its exact
\* case, and no FATAL: at its start
NoTrigger(text) ==
    /\ \A i \in 1..Len(text) :
         /\ CI(text[i]) \cap {"new quic connection", "handshake completed",
                              "connection established", "connection closed",
                              "connection timeout", "draining"} = {}
         /\ CS(text[i]) \cap {"Listening", "Waiting for QUIC"} = {}
    /\ (text = <<>> \/ text[1] # "FATAL:")

\* C7: a line that matches no trigger pattern, on either channel, changes
\* nothing but the log, which grows, and issues no badge or spawn request.
C7_NoTriggerOnlyLogs ==
    [][(LineStep /\ NoTrigger(LastLine'.text))
         => /\ UNCHANGED <<statusText, statusCls, loadingActive, activeGlow,
                           btnDisabled, connectionCount, badgeCountEl,
                           badgeDisplay, badgeRequests, opened, script,
                           loadRequests>>
            /\ Len(logEl') > Len(logEl)
            /\ SubSeq(logEl', 1, Len(logEl)) = logEl]_vars

\* C7 witness: a diagnostic line with 'listening' in lower case and FATAL:
\* not at its start, received with a connection open
C7_Witness ==
    /\ ev = "printErr"
    /\ LastLine = [chan |-> "err", text |-> <<"listening", "FATAL:">>]
    /\ connectionCount = 1
    /\ Session = "Running"

\* the count logCountEl shows
ReportedCount == Num(SubSeq(logCountEl, 1, Len(logCountEl) - 1))

\* C8: the log's reported count is the number of entries the log holds, and
\* a clear leaves the count 0 and the log empty.
C8_LogCountExact ==
    /\ lineCount = Len(logEl)
    /\ ReportedCount = Len(logEl)
    /\ ev = "clear" => (logEl = <<>> /\ ReportedCount = 0)

\* C8 witness: two entries appended after a clear
C8_Witness ==
    /\ ev \in {"print", "printErr"}
    /\ Len(received) = 2
    /\ Len(logEl) = 2
    /\ logCountEl = <<"2", " lines">>

\* the lines before the last one
Front(r) == SubSeq(r, 1, Len(r) - 1)

\* ConnectionCount after the lines r, by the rules of the specification
RECURSIVE ExpectedCount(_)
ExpectedCount(r) ==
    IF r = <<>> THEN 0
    ELSE LET p == ExpectedCount(Front(r))
             l == r[Len(r)]
             a == IF l.chan = "err" /\ TestEstablished(l.text) THEN p + 1 ELSE p
         IN IF l.chan = "err" /\ TestClosed(l.text) /\ a > 0 THEN a - 1 ELSE a

\* the ordinals of the established triggers fired by the lines r
RECURSIVE ExpectedTags(_)
ExpectedTags(r) ==
    IF r = <<>> THEN <<>>
    ELSE LET l == r[Len(r)]
         IN IF l.chan = "err" /\ TestEstablished(l.text)
            THEN Append(ExpectedTags(Front(r)), ExpectedCount(Front(r)) + 1)
            ELSE ExpectedTags(Front(r))

\* Scenario C: three established lines, then a closed one
ScenarioC ==
    [i \in 1..4 |-> [chan |-> "err",
                     text |-> IF i < 4 THEN <<"new QUIC connection">>
                              ELSE <<"connection closed">>]]

\* C9: one auxiliary view is requested per established trigger fired, tagged
\* with ConnectionCount right after the increment, and closed triggers
\* request none; three established lines and a closed one give count 2,
\* badge 2 and the requests tagged 1, 2, 3.
C9_SpawnPerEstablished ==
    /\ Len(opened) = Cardinality({i \in 1..Len(received) :
                                    /\ received[i].chan = "err"
                                    /\ TestEstablished(received[i].text)})
    /\ Len(opened) = Len(ExpectedTags(received))
    /\ \A i \in 1..Len(opened) :
         /\ opened[i][1] = "/quic.html?conn="
         /\ Num(Tail(opened[i])) = ExpectedTags(received)[i]
    /\ connectionCount = ExpectedCount(received)
    /\ received = ScenarioC
         => /\ connectionCount = 2
            /\ badgeCountEl = <<"2">>
            /\ badgeDisplay # "none"
            /\ opened = <<ConnUrl(1), ConnUrl(2), ConnUrl(3)>>

\* C9 witness: Scenario C has run
C9_Witness == received = ScenarioC /\ ev = "printErr"

\* C10 (as stated): a line appends exactly one entry to the log.
C10_OneEntryPerLine ==
    [][LineStep => Len(logEl') = Len(logEl) + 1]_vars

\* the extra entry of a diagnostic line that fires the established trigger
ConnectionEntry(n) ==
    [cls |-> "log-ok", msg |-> <<"Connection #">> \o Str(n) \o <<" - badge updated">>]

\* C10 (amended): a line appends one entry carrying the line itself; a
\* diagnostic line that fires the established trigger appends one more, the
\* ok entry naming the new count; no other trigger appends an entry.
C10_EntriesPerLine ==
    [][LineStep
         => LET l == LastLine'
                more == IF l.chan = "err" /\ TestEstablished(l.text)
                        THEN <<ConnectionEntry(connectionCount + 1)>> ELSE <<>>
            IN /\ Len(logEl') = Len(logEl) + 1 + Len(more)
               /\ SubSeq(logEl', 1, Len(logEl)) = logEl
               /\ logEl'[Len(logEl) + 1].msg = l.text
               /\ SubSeq(logEl', Len(logEl) + 2, Len(logEl')) = more]_vars

\* C10 witness: a diagnostic line firing the listening and the established
\* trigger has left two entries
C10_Witness ==
    /\ ev = "printErr"
    /\ LastLine.text = <<"Listening", "new QUIC connection">>
    /\ Len(logEl) >= 2
    /\ logEl[Len(logEl)] = ConnectionEntry(1)
    /\ logEl[Len(logEl) - 1].msg = LastLine.text

\* what the trigger tests and the page show of the state
TriggerView ==
    <<statusText, statusCls, loadingActive, activeGlow, btnDisabled,
      connectionCount, badgeCountEl, badgeDisplay, badgeRequests, opened>>

\* C11 (as stated): a line received on the standard channel has the effect
\* on Session state, ConnectionCount, badge and spawn requests that the same
\* line has on the diagnostic channel.
C11_ChannelsAlike ==
    [][(LineStep /\ LastLine'.chan = "out")
         => LET d == printErr(Cur, LastLine'.text)
            IN TriggerView' = <<d.statusText, d.statusCls, d.loadingActive,
                                d.activeGlow, d.btnDisabled, d.connectionCount,
                                d.badgeCountEl, d.badgeDisplay, d.badgeRequests,
                                d.opened>>]_vars

\* C11 (amended): the severity pass is applied to every line whatever its
\* channel, the trigger tests to lines of the diagnostic channel only: a
\* line received on the standard channel appends its one entry, with the
\* severity the same line gets on the diagnostic channel, and leaves Session
\* state, ConnectionCount, badge and spawn requests as they are.
C11_StandardOnlyLogs ==
    [][(LineStep /\ LastLine'.chan = "out")
         => /\ UNCHANGED TriggerView
            /\ Len(logEl') = Len(logEl) + 1
            /\ SubSeq(logEl', 1, Len(logEl)) = logEl
            /\ logEl'[Len(logEl')] = printErr(Cur, LastLine'.text).logEl[Len(logEl) + 1]]_vars

\* C11 witness: a line matching the listening and the established pattern
\* received on the standard channel while the Session is Loading
C11_Witness ==
    /\ ev = "print"
    /\ received = <<[chan |-> "out", text |-> <<"Listening", "new QUIC connection">>]>>
    /\ Session = "Loading"
    /\ connectionCount = 0
    /\ opened = <<>>
    /\ logEl[Len(logEl)] = [cls |-> "log-ok", msg |-> <<"Listening", "new QUIC connection">>]

\* the ordered severity rules of the specification: error, ok, warn
SeverityRules ==
    << [cls |-> "log-err",  lits |-> {"fatal:", "error"}, okEnd |-> FALSE],
       [cls |-> "log-ok",   lits |-> {"loaded", "configured", "completed",
                                      "listening", "available"}, okEnd |-> TRUE],
       [cls |-> "log-warn", lits |-> {"warn", "requires", "not available"},
        okEnd |-> FALSE] >>

RuleMatches(rule, msg) ==
    \/ \E i \in 1..Len(msg) : CI(msg[i]) \cap rule.lits # {}
    \/ rule.okEnd /\ msg # <<>> /\ msg[Len(msg)] \in {"OK", "ok"}

\* the severity of the first rule that matches, info when none does
FirstMatch(msg) ==
    LET hits == {i \in 1..Len(SeverityRules) : RuleMatches(SeverityRules[i], msg)}
    IN IF hits = {} THEN "log-info"
       ELSE SeverityRules[CHOOSE i \in hits : \A j \in hits : i <= j].cls

\* the severity the callers of log() supply with their own messages
Supplied(msg) ==
    CASE msg[1] = "Need COOP/COEP headers or IWA context for SharedArrayBuffer" -> "log-err"
      [] msg[1] = "Ready to start."                      -> "log-ok"
      [] msg[1] = "IWA capabilities: k/20 APIs detected" -> "log-ok"
      [] msg[1] = "Connection #"                         -> "log-ok"
      [] msg[1] = "Module aborted: "                     -> "log-err"
      [] msg[1] = "Failed to load quic_echo_server.js"   -> "log-err"
      [] OTHER                                           -> NoCls

\* C12: every log entry has exactly one severity: the one its caller
\* supplied, taken as given, or else that of the first matching rule in the
\* order error, ok, warn, and info when no rule matches.
C12_SeverityFirstMatch ==
    \A i \in 1..Len(logEl) :
        /\ logEl[i].cls \in {"log-err", "log-ok", "log-warn", "log-info"}
        /\ logEl[i].cls = IF Supplied(logEl[i].msg) # NoCls
                          THEN Supplied(logEl[i].msg)
                          ELSE FirstMatch(logEl[i].msg)

\* C12 witness: a line meeting the ok and the warn rule logged as ok, one
\* meeting the warn rule alone (OK not at its end) logged as warn, and a
\* message no rule calls an error logged as the error its caller says it is
C12_Witness ==
    /\ \E i \in 1..Len(logEl) :
         logEl[i] = [cls |-> "log-ok", msg |-> <<"not available">>]
    /\ \E i \in 1..Len(logEl) :
         logEl[i] = [cls |-> "log-warn", msg |-> <<"OK", "warn">>]
    /\ \E i \in 1..Len(logEl) :
         /\ logEl[i] = [cls |-> "log-err", msg |-> <<"Failed to load quic_echo_server.js">>]
         /\ FirstMatch(logEl[i].msg) = "log-info"

\* the trigger patterns a line matches, spelled from the specification
HasEstablished(text) ==
    \E i \in 1..Len(text) :
        CI(text[i]) \cap {"new quic connection", "handshake completed",
                          "connection established"} # {}

HasListening(text) ==
    \E i \in 1..Len(text) : CS(text[i]) \cap {"Listening", "Waiting for QUIC"} # {}

HasFatalPrefix(text) == text # <<>> /\ text[1] = "FATAL:"

\* C13: a diagnostic line fires the effect of every trigger pattern it
\* matches while it is processed: after it the counter and the spawn
\* requests account for every established and closed match received, and a
\* line matching the listening and the established pattern leaves the
\* Session Running with the active indicator on, the counter incremented and
\* one more view requested.
C13_EveryTriggerFires ==
    ev = "printErr"
      => /\ connectionCount = ExpectedCount(received)
         /\ Len(opened) = Len(ExpectedTags(received))
         /\ HasListening(LastLine.text) => (activeGlow /\ ~loadingActive)
         /\ (HasListening(LastLine.text) /\ ~HasFatalPrefix(LastLine.text))
              => Session = "Running"
         /\ HasFatalPrefix(LastLine.text) => Session = "Error"
         /\ (HasEstablished(LastLine.text) /\ opened # <<>>)
              => opened[Len(opened)] = ConnUrl(ExpectedCount(Front(received)) + 1)

\* C13 witness: a line matching the listening and the established pattern
\* received while Loading: Running, count 1, one view requested
C13_Witness ==
    /\ ev = "printErr"
    /\ received = <<[chan |-> "err", text |-> <<"Listening", "new QUIC connection">>]>>
    /\ Session = "Running"
    /\ activeGlow
    /\ connectionCount = 1
    /\ opened = <<ConnUrl(1)>>

\* the texts a module line can carry
LineTexts ==
    Lines \cup OutLines \cup ConnLines \cup SevLines \cup FailLines \cup BadgeLines

IsLineEntry(entry) == entry.msg \in LineTexts

\* the entries of the log that carry a received line, in log order
LineEntries == SelectSeq(logEl, IsLineEntry)

\* the last n elements of a sequence
Last(seq, n) == SubSeq(seq, Len(seq) - n + 1, Len(seq))

\* C15: the log carries the received lines in the order of receipt (its
\* line entries are the texts of the most recent lines, oldest first, none
\* missing in between), and when a line has been processed every trigger
\* effect of all the lines before it and of itself is already applied:
\* nothing is held back for a later line.
C15_OrderOfReceipt ==
    /\ Len(LineEntries) <= Len(received)
    /\ \A i \in 1..Len(LineEntries) :
         LineEntries[i].msg = Last(received, Len(LineEntries))[i].text
    /\ ev \in {"print", "printErr"}
         => /\ LineEntries # <<>>
            /\ logEl[Len(logEl)].msg = LastLine.text
                 \/ /\ LastLine.chan = "err"
                    /\ HasEstablished(LastLine.text)
                    /\ logEl[Len(logEl) - 1].msg = LastLine.text
            /\ connectionCount = ExpectedCount(received)
            /\ opened = [i \in 1..Len(ExpectedTags(received)) |->
                          ConnUrl(ExpectedTags(received)[i])]

\* C15 witness: two different lines received one after the other, both in
\* the log, the earlier one first
C15_Witness ==
    /\ Len(received) = 2
    /\ received[1].text = <<"Listening">>
    /\ received[2].text = <<"new QUIC connection">>
    /\ received[2].chan = "err"
    /\ Len(LineEntries) = 2
    /\ LineEntries[1].msg = <<"Listening">>
    /\ LineEntries[2].msg = <<"new QUIC connection">>
    /\ connectionCount = 1

\* the Session before the last handler ran, for a first line: no line and no
\* abort came before it, so the module was loaded from Loading
FirstLineOfLoad == Len(received) = 1 /\ aborts = 0 /\ loadRequests >= 1

\* C16: after a fatal-prefixed diagnostic line the Session is Error with the
\* error status, the loading indicator is hidden and the start control is
\* disabled, whatever else the line matches and whether the line came
\* while Loading or while Running.
C16_FatalLine ==
    (ev = "printErr" /\ HasFatalPrefix(LastLine.text))
      => /\ Session = "Error"
         /\ statusText = "error"
         /\ statusCls = "status-error"
         /\ ~loadingActive
         /\ btnDisabled

\* C16 witnesses: the fatal line as first line (from Loading), and after a
\* listening line (from Running)
C16_Witness ==
    /\ ev = "printErr"
    /\ Len(received) = 2
    /\ received[1] = [chan |-> "err", text |-> <<"Listening">>]
    /\ received[2] = [chan |-> "err", text |-> <<"FATAL:", "x">>]
    /\ aborts = 0
    /\ Session = "Error"
    /\ btnDisabled

C18_AbortSignal ==
    [][(aborts' = aborts + 1)
         => /\ \E what \in Whats :
                 logEl' = Append(logEl, [cls |-> "log-err",
                                         msg |-> <<"Module aborted: ">> \o what])
            /\ Session' = "Aborted"
            /\ statusCls' = "status-error"
            /\ ~loadingActive'
            /\ btnDisabled
            /\ btnDisabled']_vars

\* C18 witness: the abort signal came while Running
C18_Witness ==
    /\ ev = "abort"
    /\ aborts = 1
    /\ received = <<[chan |-> "err", text |-> <<"Listening">>]>>
    /\ Session = "Aborted"
    /\ ~loadingActive
    /\ btnDisabled
    /\ logEl[Len(logEl)] = [cls |-> "log-err", msg |-> <<"Module aborted: ", "OOM">>]

\* C19: a load failure comes while Loading and leaves the Session in Error
\* with the load-failure status, the loading indicator hidden, one more log
\* entry, of error severity, and the start control enabled.
C19_LoadFailure ==
    [][(script = "pending" /\ script' = "failed")
         => /\ Session = "Loading"
            /\ Session' = "Error"
            /\ statusText' = "load failed"
            /\ statusCls' = "status-error"
            /\ ~loadingActive'
            /\ logEl' = Append(logEl, [cls |-> "log-err",
                                       msg |-> <<"Failed to load quic_echo_server.js">>])
            /\ ~btnDisabled']_vars

\* C19 witness: the load has failed
C19_Witness ==
    /\ ev = "onerror"
    /\ script = "failed"
    /\ Session = "Error"
    /\ statusText = "load failed"
    /\ ~loadingActive
    /\ ~btnDisabled
    /\ logEl[Len(logEl)].cls = "log-err"

\* C20: while the Session is Loading or Running, and while a module load is
\* in flight or the module is loaded, the start control is disabled; a
\* start command is accepted only with the control enabled, so every
\* module-load request is made with no load in flight and no module loaded.
C20_NoReentrantStart ==
    /\ Session \in {"Loading", "Running"} => btnDisabled
    /\ script \in {"pending", "loaded"} => btnDisabled
    /\ ev = "start" => script = "pending"

\* C20 witness: Running after a second start, the control disabled
C20_Witness ==
    /\ Session = "Running"
    /\ loadRequests = 2
    /\ btnDisabled

\* what the page shows and counts
PageView ==
    <<btnDisabled, statusText, statusCls, loadingActive, activeGlow, logEl,
      lineCount, logCountEl, connectionCount, badgeCountEl, badgeDisplay>>

PageOf(s) ==
    <<s.btnDisabled, s.statusText, s.statusCls, s.loadingActive, s.activeGlow,
      s.logEl, s.lineCount, s.logCountEl, s.connectionCount, s.badgeCountEl,
      s.badgeDisplay>>

\* C14: whatever the host does with the badge and window requests of a
\* diagnostic line (the call throws, the promise rejects, the window is
\* refused), the line leaves the page, the counter and the requests issued
\* exactly as the same line does with a host that serves them all; the
\* counter follows the lines received, failed requests or not; no appended
\* entry is of error severity unless it is the line itself; and a promise
\* settling, by rejection too, changes nothing on the page.
C14_FailuresSwallowed ==
    [][/\ (LineStep /\ LastLine'.chan = "err")
            => /\ PageView' = PageOf(printErr(Cur, LastLine'.text))
               /\ badgeRequests' = printErr(Cur, LastLine'.text).badgeRequests
               /\ opened' = printErr(Cur, LastLine'.text).opened
               /\ connectionCount' = ExpectedCount(received')
               /\ \A i \in (Len(logEl) + 1)..Len(logEl') :
                     logEl'[i].cls = "log-err" => logEl'[i].msg = LastLine'.text
       /\ (ev' = "settle") => UNCHANGED <<PageView, badgeRequests, opened>>]_vars

\* C14 witness: the badge request of a closed line was rejected; the next
\* line, listening and established, had its badge request rejected and its
\* window.open throw, and still moved the Session to Running, counted the
\* connection and logged its two entries
C14_Witness ==
    /\ ev = "printErr"
    /\ host = [badge |-> "reject", open |-> "throw"]
    /\ received = <<[chan |-> "err", text |-> <<"connection closed">>],
                    [chan |-> "err", text |-> <<"Listening", "new QUIC connection">>]>>
    /\ awaited = <<[req |-> BadgeRequest(0), outcome |-> "reject", seq |-> 1],
                   [req |-> BadgeRequest(1), outcome |-> "reject", seq |-> 2]>>
    /\ Session = "Running"
    /\ activeGlow
    /\ connectionCount = 1
    /\ opened = <<ConnUrl(1)>>
    /\ logEl[Len(logEl)] = ConnectionEntry(1)
    /\ logEl[Len(logEl) - 1].msg = <<"Listening", "new QUIC connection">>

\* C21: the unload of the page, in any Session state and at any count,
\* issues one clear request when the host has the Badging API (none without
\* it) and changes nothing on the page; whatever becomes of that request,
\* a throw of the call or a rejection later, nothing on the page changes
\* and no request follows.
C21_UnloadClears ==
    [][/\ (~unloaded /\ unloaded')
            => /\ badgeRequests' =
                    IF badgingSupported
                    THEN Append(badgeRequests, [op |-> "clearAppBadge", n |-> 0])
                    ELSE badgeRequests
               /\ UNCHANGED <<PageView, opened>>
       /\ unloaded => UNCHANGED <<PageView, badgeRequests, opened>>]_vars

\* C21 witness: the page was unloaded while Running with one connection
\* counted; the clear request was issued and the host rejected it
C21_Witness ==
    /\ unloaded
    /\ ev = "settle"
    /\ host.badge = "reject"
    /\ Session = "Running"
    /\ connectionCount = 1
    /\ badgeRequests[Len(badgeRequests)] = [op |-> "clearAppBadge", n |-> 0]
    /\ awaited = <<>>
    /\ appBadge = 1

\* the request the specification asks for at an update of the counter to c
RequestFor(c) ==
    IF c > 0 THEN [op |-> "setAppBadge", n |-> c]
    ELSE [op |-> "clearAppBadge", n |-> 0]

\* the requests the lines r ask for, in order: one per established match
\* and one per closed match of a diagnostic line, the established first
RECURSIVE ExpectedRequests(_)
ExpectedRequests(r) ==
    IF r = <<>> THEN <<>>
    ELSE LET l == r[Len(r)]
             p == ExpectedCount(Front(r))
             est == l.chan = "err" /\ HasEstablished(l.text)
             a == IF est THEN p + 1 ELSE p
             closed == l.chan = "err" /\
                       \E i \in 1..Len(l.text) :
                          CI(l.text[i]) \cap {"connection closed", "connection timeout",
                                              "draining"} # {}
         IN ExpectedRequests(Front(r))
              \o (IF est THEN <<RequestFor(a)>> ELSE <<>>)
              \o (IF closed THEN <<RequestFor(IF a > 0 THEN a - 1 ELSE 0)>> ELSE <<>>)

\* C22: with the Badging API, the requests issued while the page lives are,
\* in order, the requests of the counter updates of the lines received, each
\* issued in the step of its line, whatever requests are still outstanding;
\* without the API none is issued.
C22_RequestOrder ==
    ~unloaded
      => /\ badgeRequests =
              IF badgingSupported THEN ExpectedRequests(received) ELSE <<>>
         /\ \A i \in 1..Len(awaited) :
               /\ awaited[i].seq \in 1..Len(badgeRequests)
               /\ awaited[i].req = badgeRequests[awaited[i].seq]

\* C22 witness: two lines processed one after the other with the request of
\* the first still outstanding when the second was issued
C22_Witness ==
    /\ ~unloaded
    /\ ev = "printErr"
    /\ Len(received) = 2
    /\ badgeRequests = <<[op |-> "setAppBadge", n |-> 1],
                         [op |-> "clearAppBadge", n |-> 0]>>
    /\ Len(awaited) = 2
    /\ connectionCount = 0

\* C23 (as stated), read for a host that has the Badging API: whenever no
\* badge request is outstanding, the badge of the host shows ConnectionCount
\* (0: no badge).
C23_BadgeMirrorsCount ==
    (badgingSupported /\ ~unloaded /\ awaited = <<>>) => appBadge = connectionCount

\* C23 (amended): the badge of the host shows the value of the request that
\* took effect last (no badge before any did).  With the Badging API, once
\* no request is outstanding and the one that took effect last is the one
\* issued last, the badge shows ConnectionCount.
C23_MirrorsWhenLatestApplied ==
    ~unloaded
      => /\ applied \in 0..Len(badgeRequests)
         /\ appBadge = IF applied = 0 THEN 0 ELSE badgeRequests[applied].n
         /\ (badgingSupported /\ awaited = <<>> /\ applied = Len(badgeRequests))
              => appBadge = connectionCount

\* C23 witness: two connections counted, both requests completed, the later
\* one last: the badge shows 2
C23_Witness ==
    /\ ~unloaded
    /\ ev = "settle"
    /\ badgingSupported
    /\ Len(badgeRequests) = 2
    /\ awaited = <<>>
    /\ applied = 2
    /\ connectionCount = 2
    /\ appBadge = 2

\* C24: the views requested in one page lifetime carry pairwise different
\* ordinals, the first of them 1.
C24_OrdinalsDistinct ==
    /\ opened # <<>> => opened[1] = ConnUrl(1)
    /\ \A i, j \in 1..Len(opened) : i # j => opened[i] # opened[j]

HasClosed(text) ==
    \E i \in 1..Len(text) :
        CI(text[i]) \cap {"connection closed", "connection timeout", "draining"} # {}

\* C25: the clear operation leaves the log empty with its count at zero and
\* leaves status, indicators, start control, counter, badge and requests as
\* they were; the counter changes only in the step of a diagnostic line that
\* matches the established or the closed pattern; a start command leaves it
\* as it was.
C25_ClearFrame ==
    [][/\ (ev' = "clear")
            => /\ logEl' = <<>>
               /\ lineCount' = 0
               /\ logCountEl' = <<"0", " lines">>
               /\ UNCHANGED <<statusText, statusCls, loadingActive, activeGlow,
                              btnDisabled, connectionCount, badgeCountEl,
                              badgeDisplay, badgeRequests, opened, script,
                              loadRequests>>
       /\ (connectionCount' # connectionCount)
            => /\ LineStep
               /\ LastLine'.chan = "err"
               /\ HasEstablished(LastLine'.text) \/ HasClosed(LastLine'.text)
       /\ (loadRequests' # loadRequests)
            => UNCHANGED <<connectionCount, badgeCountEl, badgeDisplay>>]_vars

\* C25 witness: the log cleared while Running with one connection counted
C25_Witness ==
    /\ ev = "clear"
    /\ logEl = <<>>
    /\ lineCount = 0
    /\ Session = "Running"
    /\ connectionCount = 1
    /\ badgeDisplay = "inline-flex"
    /\ btnDisabled

\* C26: the loading indicator is active exactly while the status reads
\* 'loading...', the Session Loading.
C26_LoadingIffLoading ==
    /\ loadingActive <=> statusText = "loading..."
    /\ loadingActive <=> Session = "Loading"

\* C26 witness: a load failure hid the indicator and a second start command
\* shows it again, the Session Loading
C26_Witness ==
    /\ ev = "start"
    /\ loadRequests = 2
    /\ script = "pending"
    /\ Session = "Loading"
    /\ loadingActive

\* C27: after a diagnostic line that starts with the fatal prefix and names
\* the listening pattern, the status is 'error' with the error style, the
\* Session Error and not Running, and the listening effect that ran before
\* it shows in the active indicator, which is on.
C27_FatalAfterListening ==
    (ev = "printErr" /\ HasListening(LastLine.text) /\ HasFatalPrefix(LastLine.text))
      => /\ statusText = "error"
         /\ statusCls = "status-error"
         /\ Session = "Error"
         /\ Session # "Running"
         /\ activeGlow
         /\ ~loadingActive

\* C27 witness: 'FATAL: Listening' as first line of a load
C27_Witness ==
    /\ ev = "printErr"
    /\ received = <<[chan |-> "err", text |-> <<"FATAL:", "Listening">>]>>
    /\ aborts = 0
    /\ statusText = "error"
    /\ activeGlow

\* C28: no step turns the active indicator off; the handlers a later start
\* would run (the start command, the load and the load failure of its
\* script) keep it on where it is on.
C28_GlowStays ==
    [][/\ activeGlow => activeGlow'
       /\ startServer([Cur EXCEPT !.activeGlow = TRUE]).activeGlow
       /\ scriptOnload([Cur EXCEPT !.activeGlow = TRUE]).activeGlow
       /\ scriptOnerror([Cur EXCEPT !.activeGlow = TRUE]).activeGlow]_vars

\* C28 witness: listening line, fatal line, abort signal: the indicator is
\* on with the Session Aborted, after having been on with the Session Error
C28_Witness ==
    /\ ev = "abort"
    /\ received = <<[chan |-> "err", text |-> <<"Listening">>],
                    [chan |-> "err", text |-> <<"FATAL:", "x">>]>>
    /\ aborts = 1
    /\ Session = "Aborted"
    /\ activeGlow

====
